---- MODULE Spec2Model ----
\* A model of the SKU calculation engine (backend/app/core/calculator.py):
\* the three-tier override resolver and the per-SKU formula pipeline.
\*
\* Numbers.  The engine computes on Python floats.  The model computes on
\* exact rationals [n |-> numerator, d |-> denominator], d > 0, in lowest
\* terms, so that every comparison of the code (>=, <=, >, max, min) is
\* decided on the exact value; float rounding is not modelled.  Python's
\* None is the record with d = 0.  x ** e is modelled for exponents e = k/2
\* as an exact surd c * sqrt(r), r a square-free integer.
EXTENDS Integers, Sequences, FiniteSets, TLC

\* engine:   the CalculationEngine object (its four configuration maps)
\* method:   the method of the engine that is called
\* sku:      the SkuRecord handed to calculate_sku
\* call:     the arguments handed to _get_override
\* pc:       "start" before the call, "done" after it
\* result:   what calculate_sku returned or raised
\* resolved: what _get_override returned
\* records:  the SkuRecord objects in memory that calls are made on
\* heap:     the result objects calculate_sku has created, by identity
\* log:      the calls of calculate_sku made so far
\* db:       the committed content of the database
\* req:      the requests in progress, each with its session's state
VARIABLES engine, method, sku, call, pc, result, resolved,
          records, heap, log, db, req

vars == <<engine, method, sku, call, pc, result, resolved,
          records, heap, log, db, req>>

------------------------------------------------------------------------
\* Exact arithmetic

Abs(x) == IF x < 0 THEN -x ELSE x

RECURSIVE GCD(_, _)
GCD(a, b) == IF b = 0 THEN a ELSE GCD(b, a % b)

\* the rational n/d in lowest terms with a positive denominator (d # 0)
R(n, d) ==
    LET s == IF d < 0 THEN -1 ELSE 1
        g == GCD(Abs(n), Abs(d))
    IN  [n |-> (s * n) \div g, d |-> (s * d) \div g]

Int2R(k) == [n |-> k, d |-> 1]
Zero == Int2R(0)
One == Int2R(1)

\* Python's None, where a float is expected
None == [n |-> 0, d |-> 0]
IsNone(x) == x.d = 0

\* x + y, x - y, x * y of the code; an operand that is None makes the
\* Python expression raise TypeError, which the model carries as None
Add(x, y) == IF IsNone(x) \/ IsNone(y) THEN None
             ELSE LET g == GCD(x.d, y.d)
                  IN  R(x.n * (y.d \div g) + y.n * (x.d \div g),
                        (x.d \div g) * y.d)
Neg(x) == IF IsNone(x) THEN None ELSE [n |-> -x.n, d |-> x.d]
Sub(x, y) == Add(x, Neg(y))
Mul(x, y) == IF IsNone(x) \/ IsNone(y) THEN None
             ELSE IF x.n = 0 \/ y.n = 0 THEN Zero
             ELSE LET g1 == GCD(Abs(x.n), y.d)
                      g2 == GCD(Abs(y.n), x.d)
                  IN  [n |-> (x.n \div g1) * (y.n \div g2),
                       d |-> (x.d \div g2) * (y.d \div g1)]
\* x / y for y # 0
Div(x, y) == IF IsNone(x) \/ IsNone(y) THEN None
             ELSE Mul(x, R(y.d, y.n))

Leq(x, y) == x.n * y.d <= y.n * x.d
Lt(x, y) == x.n * y.d < y.n * x.d
Geq(x, y) == Leq(y, x)
Gt(x, y) == Lt(y, x)
\* Python's max(a, b) and min(a, b): the first argument wins a tie
Max(a, b) == IF Gt(b, a) THEN b ELSE a
Min(a, b) == IF Lt(b, a) THEN b ELSE a

\* Python's `x or 0.0` on an optional number
OrZero(x) == IF IsNone(x) \/ x.n = 0 THEN Zero ELSE x

\* integer power x^k, k >= 0, and x^k for any integer k (x # 0 when k < 0)
RECURSIVE PowNat(_, _)
PowNat(x, k) == IF k = 0 THEN One ELSE Mul(x, PowNat(x, k - 1))
PowInt(x, k) == IF k >= 0 THEN PowNat(x, k) ELSE PowNat(Div(One, x), -k)

\* the largest j with j*j dividing m (m > 0), searched upwards from k
RECURSIVE SquarePart(_, _, _)
SquarePart(m, k, best) ==
    IF k * k > m THEN best
    ELSE SquarePart(m, k + 1, IF m % (k * k) = 0 THEN k ELSE best)

\* A surd [c |-> rational, r |-> square-free integer] is the number
\* c * sqrt(r); r = 1 for a rational, r < 0 for Python's complex results.
Surd(c, r) == [c |-> c, r |-> IF c.n = 0 THEN 1 ELSE r]
NoneSurd == [c |-> None, r |-> 1]
\* sqrt(x) of a rational x # 0:  sqrt(p/q) = sqrt(p*q)/q
SqrtR(x) ==
    LET m == Abs(x.n) * x.d
        j == SquarePart(m, 1, 1)
        s == IF x.n < 0 THEN -1 ELSE 1
    IN  Surd(R(j, x.d), s * (m \div (j * j)))
\* x ** e of the code, for x # 0 and e = k/2
Pow(x, e) ==
    IF e.d = 1 THEN Surd(PowInt(x, e.n), 1)
    ELSE LET k == (e.n - 1) \div 2
             q == SqrtR(x)
         IN  Surd(Mul(PowInt(x, k), q.c), q.r)
\* a surd times a rational
SMul(s, x) == IF IsNone(s.c) \/ IsNone(x) THEN NoneSurd ELSE Surd(Mul(s.c, x), s.r)

------------------------------------------------------------------------
\* Data model

\* Python's None where a string is expected, and the three values of a
\* nullable boolean column
NoneStr == "<None>"
Bool3 == {"True", "False", "None"}
\* `s is not None` in place of the truth of s
TruthyNotNone(s) == s # NoneStr

\* Python truthiness of an optional string: None and "" are falsy
Truthy(s) == s # NoneStr /\ s # ""

\* getattr(obj, name, None) on a configuration row
GetAttr(obj, name) == IF name \in DOMAIN obj THEN obj[name] ELSE None

\* SkuCalculationCache(sku_id=...): only sku_id is set by the constructor,
\* every other attribute of the new object reads as None
SkuCalculationCache(sku_id) ==
    [sku_id |-> sku_id,
     gm_dollar_per_unit |-> None, gm_pct |-> None,
     weighted_score_layer_b |-> None, channel_weighted_score |-> None,
     synergy_score_layer_c |-> None, risk_score_layer_d |-> None,
     risk_factor |-> None,
     adj_units_base |-> NoneSurd, adj_units_best |-> NoneSurd,
     adj_units_worst |-> NoneSurd,
     monthly_revenue |-> NoneSurd, monthly_gm_dollar |-> NoneSurd,
     monthly_gm_base |-> NoneSurd, monthly_gm_best |-> NoneSurd,
     monthly_gm_worst |-> NoneSurd,
     pass_regulatory |-> "None", pass_supply_ready |-> "None",
     pass_gm_floor |-> "None",
     final_recommendation |-> NoneStr, select_for_wave_1 |-> "None"]

\* what a call of calculate_sku produces: a returned cache object, or an
\* exception (raised names it, and nothing is returned)
Returned(cache) == [raised |-> "", value |-> cache]
Raised(exc) == [raised |-> exc, value |-> SkuCalculationCache(NoneStr)]

------------------------------------------------------------------------
\* CalculationEngine

\* CalculationEngine(global_settings, markets, market_channels,
\* market_categories): the constructor keeps the four maps it is given
CalculationEngine(global_settings, mkts, mkt_channels, mkt_categories) ==
    [settings |-> global_settings, markets |-> mkts,
     market_channels |-> mkt_channels, market_categories |-> mkt_categories]

_get_setting(self, key, default) ==
    IF key \in DOMAIN self.settings THEN self.settings[key] ELSE default

\* f"{market}_{channel}" and f"{market}_{channel}_{category}"
ChanKey(market, channel) == market \o "_" \o channel
CatKey(market, channel, category) ==
    market \o "_" \o channel \o "_" \o category

_map_field_name(field_name) ==
    CASE field_name = "adoption_rate" -> "retail_adoption_rate"
      [] field_name = "marketing_lift" -> "marketing_lift"
      [] field_name = "competitor_idx" -> "competitor_activity_idx"
      [] OTHER -> field_name

\* tier 1 of _get_override: the category override, None when it does not apply
CategoryTier(self, market, channel, category, field_name) ==
    LET cat_key == CatKey(market, channel, category)
    IN  IF cat_key \in DOMAIN self.market_categories
        THEN GetAttr(self.market_categories[cat_key], field_name \o "_override")
        ELSE None

\* tier 2 of _get_override: the channel value, None when it does not apply
ChannelTier(self, market, channel, field_name) ==
    LET chan_key == ChanKey(market, channel)
    IN  IF chan_key \in DOMAIN self.market_channels
        THEN GetAttr(self.market_channels[chan_key], _map_field_name(field_name))
        ELSE None

\* _get_override testing the values for truth instead of `is not None`
GetOverrideTruthy(self, market, channel, category, field_name, global_default) ==
    LET override_val == CategoryTier(self, market, channel, category, field_name)
        val == ChannelTier(self, market, channel, field_name)
    IN  IF ~IsNone(override_val) /\ override_val.n # 0 THEN override_val
        ELSE IF ~IsNone(val) /\ val.n # 0 THEN val
        ELSE _get_setting(self, field_name, global_default)

_get_override(self, market, channel, category, field_name, global_default) ==
    LET override_val == CategoryTier(self, market, channel, category, field_name)
        val == ChannelTier(self, market, channel, field_name)
    IN  IF ~IsNone(override_val) THEN override_val
        ELSE IF ~IsNone(val) THEN val
        ELSE _get_setting(self, field_name, global_default)

\* the scenario's default price delta taken with the opposite sign
ScenarioNegDelta(self, name, d_price, d_mkt, d_adopt, d_comp) ==
    [price_delta |-> _get_setting(self, "scenario_" \o name \o "_price_delta", Neg(d_price)),
     marketing_mult |-> _get_setting(self, "scenario_" \o name \o "_marketing_mult", d_mkt),
     adoption_mult |-> _get_setting(self, "scenario_" \o name \o "_adoption_mult", d_adopt),
     competitor_mult |-> _get_setting(self, "scenario_" \o name \o "_competitor_mult", d_comp)]

\* the demand scenario read from the settings, with the code's defaults
Scenario(self, name, d_price, d_mkt, d_adopt, d_comp) ==
    [price_delta |-> _get_setting(self, "scenario_" \o name \o "_price_delta", d_price),
     marketing_mult |-> _get_setting(self, "scenario_" \o name \o "_marketing_mult", d_mkt),
     adoption_mult |-> _get_setting(self, "scenario_" \o name \o "_adoption_mult", d_adopt),
     competitor_mult |-> _get_setting(self, "scenario_" \o name \o "_competitor_mult", d_comp)]

\* bool(x) of a nullable boolean, and the Bool3 of a truth value
IsTrue(b) == b = "True"
ToBool3(p) == IF p THEN "True" ELSE "False"

\* the thresholds compared strictly (> and <) instead of >= and <=
RecommendationStrict(s, pass_reg, pass_supply, pass_gm, score_b, score_d, min_score, max_risk) ==
    IF IsTrue(s.ip_risk_high) \/ IsTrue(s.regulatory_prohibition)
    THEN [final_recommendation |-> "Do Not Launch", select_for_wave_1 |-> "False"]
    ELSE IF /\ IsTrue(pass_reg) /\ IsTrue(pass_supply) /\ IsTrue(pass_gm)
            /\ Gt(score_b, min_score)
            /\ Lt(score_d, max_risk)
    THEN [final_recommendation |-> "Launch Now", select_for_wave_1 |-> "True"]
    ELSE [final_recommendation |-> "Phase Later", select_for_wave_1 |-> "False"]

\* the recommendation and the wave-1 flag decided at the end of calculate_sku
Recommendation(s, pass_reg, pass_supply, pass_gm, score_b, score_d, min_score, max_risk) ==
    IF IsTrue(s.ip_risk_high) \/ IsTrue(s.regulatory_prohibition)
    THEN [final_recommendation |-> "Do Not Launch", select_for_wave_1 |-> "False"]
    ELSE IF /\ IsTrue(pass_reg) /\ IsTrue(pass_supply) /\ IsTrue(pass_gm)
            /\ Geq(score_b, min_score)
            /\ Leq(score_d, max_risk)
    THEN [final_recommendation |-> "Launch Now", select_for_wave_1 |-> "True"]
    ELSE [final_recommendation |-> "Phase Later", select_for_wave_1 |-> "False"]

\* the early return taken only when both are missing
IncompleteBoth(s) == ~Truthy(s.target_market) /\ ~Truthy(s.primary_channel)

\* the guard of the early return: `not sku.target_market or not sku.primary_channel`
Incomplete(s) == ~Truthy(s.target_market) \/ ~Truthy(s.primary_channel)

\* a missing rating replaced by the neutral middle of the scale, 3
WeightedSumNeutral(self, s, names) ==
    LET rating(i) == IF IsNone(s["score_" \o names[i]]) THEN Int2R(3)
                     ELSE s["score_" \o names[i]]
        term(i) == Mul(rating(i),
                       _get_setting(self, names[i] \o "_weight", R(2, 10)))
    IN  Add(Add(Add(Add(term(1), term(2)), term(3)), term(4)), term(5))

\* the weighted sum of five ratings, a missing rating counting as 0
WeightedSum(self, s, names) ==
    LET term(i) == Mul(OrZero(s["score_" \o names[i]]),
                       _get_setting(self, names[i] \o "_weight", R(2, 10)))
    IN  Add(Add(Add(Add(term(1), term(2)), term(3)), term(4)), term(5))

LayerB == <<"consumer_trend", "point_of_diff", "channel_suitability",
            "strategic_role", "marketing_leverage">>
LayerC == <<"price_ladder", "usage_occasion", "channel_diff",
            "story_cohesion", "operational_synergy">>
LayerD == <<"regulatory_delay", "retail_listing", "competitive",
            "supply_chain", "price_war">>
CtsFields == <<"commission_pct", "fulfillment_pct", "cod_pct",
               "returns_allowance_pct", "listing_fees_pct",
               "trade_terms_pct", "rebates_pct", "promo_accrual_pct">>

\* the sum of the channel's eight cost-to-serve percentages
CtsTotal(mc) ==
    LET RECURSIVE sum(_)
        sum(i) == IF i = 1 THEN mc[CtsFields[1]]
                  ELSE Add(sum(i - 1), mc[CtsFields[i]])
    IN  sum(Len(CtsFields))

\* adj_list_price: the list price times the market's price multiplier
AdjListPrice(self, market, base_list_price) ==
    IF market \in DOMAIN self.markets
    THEN Mul(base_list_price, self.markets[market].price_multiplier)
    ELSE base_list_price

\* freight and duties added up instead of compounded
ImportedCogsAdditive(self, market, base_landed_cost) ==
    IF market \in DOMAIN self.markets
    THEN Mul(base_landed_cost,
             Add(Add(One, self.markets[market].import_freight_pct),
                 self.markets[market].duties_taxes_pct))
    ELSE base_landed_cost

\* imported_cogs: the landed cost with freight and duties compounded
ImportedCogs(self, market, base_landed_cost) ==
    IF market \in DOMAIN self.markets
    THEN Mul(Mul(base_landed_cost,
                 Add(One, self.markets[market].import_freight_pct)),
             Add(One, self.markets[market].duties_taxes_pct))
    ELSE base_landed_cost

\* the guard testing the adjusted price for truth (non-zero) instead of > 0
GmPctNonZero(gm_dollar_per_unit, adj_list_price) ==
    IF adj_list_price.n # 0
    THEN Div(gm_dollar_per_unit, adj_list_price) ELSE Zero

\* gm_pct: the margin per unit over the adjusted price, 0.0 unless that is > 0
GmPct(gm_dollar_per_unit, adj_list_price) ==
    IF Gt(adj_list_price, Zero)
    THEN Div(gm_dollar_per_unit, adj_list_price) ELSE Zero

\* the scenario's gross-margin dollars with a loss per unit floored at 0
MonthlyGmFloored(units, gm_dollar_per_unit) ==
    SMul(units, Max(gm_dollar_per_unit, Zero))

\* a scenario's monthly gross-margin dollars: its units times the base
\* margin per unit
MonthlyGm(units, gm_dollar_per_unit) == SMul(units, gm_dollar_per_unit)

\* a gate that an unset flag fails
GateStrict(flag) == IF flag = "True" THEN "True" ELSE "False"

\* a gate read from a nullable SKU flag: `flag if flag is not None else True`
Gate(flag) == IF flag # "None" THEN flag ELSE "True"

calculate_sku(self, s) ==
  IF Incomplete(s) THEN Returned(SkuCalculationCache(s.sku_id))
  ELSE
  LET market == s.target_market
      channel == s.primary_channel
      \* 1. market economics
      base_list_price == OrZero(s.local_list_price)
      base_landed_cost == OrZero(s.landed_cost)
      adj_list_price == AdjListPrice(self, market, base_list_price)
      imported_cogs == ImportedCogs(self, market, base_landed_cost)
      \* 2. CTS total
      chan_key == ChanKey(market, channel)
      has_channel == chan_key \in DOMAIN self.market_channels
      mc == self.market_channels[chan_key]
      cts_pct == IF has_channel THEN CtsTotal(mc) ELSE Zero
      \* 3. core financials
      gm_dollar_per_unit ==
          Sub(adj_list_price, Add(imported_cogs, Mul(cts_pct, adj_list_price)))
      gm_pct == GmPct(gm_dollar_per_unit, adj_list_price)
      \* 4.-6. layers B, C, D
      score_b == WeightedSum(self, s, LayerB)
      ch_weight == IF has_channel THEN mc.channel_weight ELSE One
      channel_weighted_score == Mul(score_b, ch_weight)
      score_c == WeightedSum(self, s, LayerC)
      score_d == WeightedSum(self, s, LayerD)
      \* 8. demand
      base_units == IF has_channel THEN mc.base_units_month ELSE Zero
      global_risk_floor == _get_setting(self, "global_risk_floor", R(6, 10))
      global_risk_slope == _get_setting(self, "global_risk_slope", R(25, 100))
      price_elasticity == _get_setting(self, "price_elasticity_abs", R(15, 10))
      category == IF Truthy(s.category) THEN s.category ELSE "Unknown"
      marketing_budget_multiplier ==
          _get_override(self, market, channel, category, "marketing_lift", One)
      retail_adoption_fraction ==
          _get_override(self, market, channel, category, "adoption_rate", One)
      target_comp_index ==
          _get_override(self, market, channel, category, "competitor_idx", One)
      risk_factor ==
          Max(global_risk_floor,
              Sub(One, Mul(global_risk_slope, Sub(score_d, One))))
      score_multiplier == Max(R(6, 10), Div(channel_weighted_score, Int2R(5)))
      ramp_factor == One
      marketing_factor ==
          Max(R(85, 100), Min(R(115, 100), Mul(One, marketing_budget_multiplier)))
      adoption_factor == retail_adoption_fraction
      comp_weight == _get_setting(self, "competitive_weight", R(2, 10))
      price_war_weight == _get_setting(self, "price_war_weight", R(2, 10))
      lin_penalty ==
          Mul(Add(Mul(comp_weight, target_comp_index),
                  Mul(price_war_weight, target_comp_index)),
              Div(score_d, Int2R(5)))
      competitor_factor ==
          Max(Sub(One, Min(_get_setting(self, "risk_penalty_cap", R(4, 10)),
                           lin_penalty)),
              R(6, 10))
      global_price_adj == _get_setting(self, "global_price_adjustment_pct", Zero)
      price_eff_index == Mul(One, Add(One, global_price_adj))
      common_units_mult ==
          Mul(Mul(Mul(Mul(Mul(Mul(base_units, score_multiplier), risk_factor),
                          marketing_factor), adoption_factor),
                  competitor_factor), ramp_factor)
      base_s == Scenario(self, "base", Zero, One, One, One)
      best_s == Scenario(self, "best", R(-5, 100), R(115, 100), R(12, 10), R(9, 10))
      worst_s == Scenario(self, "worst", R(10, 100), R(85, 100), R(8, 10), R(12, 10))
      \* the divisor of 1.0 / (price_eff_index * (1.0 + price_delta))
      divisor(sc) == Mul(price_eff_index, Add(One, sc.price_delta))
      price_effect(sc) == Pow(Div(One, divisor(sc)), price_elasticity)
      adj_units(sc) ==
          SMul(SMul(SMul(SMul(price_effect(sc), common_units_mult),
                         sc.marketing_mult), sc.adoption_mult),
               sc.competitor_mult)
      adj_units_base == adj_units(base_s)
      adj_units_best == adj_units(best_s)
      adj_units_worst == adj_units(worst_s)
      \* 9. recommendation
      min_launch_score == _get_setting(self, "launch_now_min_score", Int2R(4))
      max_launch_risk == _get_setting(self, "launch_now_max_risk", R(25, 10))
      is_regulatory_passed == Gate(s.regulatory_eligible)
      is_supply_passed == Gate(s.supply_ready)
      is_gm_passed ==
          ToBool3(Geq(gm_pct, _get_setting(self, "gm_floor_pct", R(35, 100))))
      decision ==
          Recommendation(s, is_regulatory_passed, is_supply_passed, is_gm_passed,
                         score_b, score_d, min_launch_score, max_launch_risk)
  IN
  \* an arithmetic operand that is None: TypeError (lines 63-64, 74-76, 102, 179)
  IF \/ IsNone(adj_list_price) \/ IsNone(imported_cogs) \/ IsNone(cts_pct)
     \/ IsNone(channel_weighted_score) \/ IsNone(common_units_mult)
  THEN Raised("TypeError")
  \* 1.0 / 0.0 (lines 210, 215, 220)
  ELSE IF \E sc \in {base_s, best_s, worst_s} : divisor(sc).n = 0
  THEN Raised("ZeroDivisionError")
  ELSE Returned(
    [sku_id |-> s.sku_id,
     gm_dollar_per_unit |-> gm_dollar_per_unit, gm_pct |-> gm_pct,
     weighted_score_layer_b |-> score_b,
     channel_weighted_score |-> channel_weighted_score,
     synergy_score_layer_c |-> score_c, risk_score_layer_d |-> score_d,
     risk_factor |-> risk_factor,
     adj_units_base |-> adj_units_base, adj_units_best |-> adj_units_best,
     adj_units_worst |-> adj_units_worst,
     monthly_revenue |-> SMul(adj_units_base, adj_list_price),
     monthly_gm_dollar |-> MonthlyGm(adj_units_base, gm_dollar_per_unit),
     monthly_gm_base |-> MonthlyGm(adj_units_base, gm_dollar_per_unit),
     monthly_gm_best |-> MonthlyGm(adj_units_best, gm_dollar_per_unit),
     monthly_gm_worst |-> MonthlyGm(adj_units_worst, gm_dollar_per_unit),
     pass_regulatory |-> is_regulatory_passed,
     pass_supply_ready |-> is_supply_passed,
     pass_gm_floor |-> is_gm_passed,
     final_recommendation |-> decision.final_recommendation,
     select_for_wave_1 |-> decision.select_for_wave_1])

------------------------------------------------------------------------
\* Inputs: the configurations an engine is built from and the SKUs and
\* resolver calls it is asked about

EmptyMap == [k \in {} |-> None]

\* a MarketConfig row (the columns the engine reads)
MarketRow(name, pm, freight, duties) ==
    [market_name |-> name, price_multiplier |-> pm,
     import_freight_pct |-> freight, duties_taxes_pct |-> duties]

\* a MarketChannelConfig row
ChannelRow(m, ch, cts, adopt, lift, units, weight, comp) ==
    [market_id |-> m, channel |-> ch,
     commission_pct |-> cts[1], fulfillment_pct |-> cts[2], cod_pct |-> cts[3],
     returns_allowance_pct |-> cts[4], listing_fees_pct |-> cts[5],
     trade_terms_pct |-> cts[6], rebates_pct |-> cts[7],
     promo_accrual_pct |-> cts[8],
     retail_adoption_rate |-> adopt, marketing_lift |-> lift,
     base_units_month |-> units, channel_weight |-> weight,
     competitor_activity_idx |-> comp]

\* a MarketCategoryConfig row
CategoryRow(m, ch, cat, adopt, lift, comp) ==
    [market_id |-> m, channel |-> ch, category |-> cat,
     adoption_rate_override |-> adopt, marketing_lift_override |-> lift,
     competitor_idx_override |-> comp]

\* the maps build_calc_engine makes of the stored rows
MarketMap(rows) ==
    [k \in {r.market_name : r \in rows} |->
        CHOOSE r \in rows : r.market_name = k]
ChannelMap(rows) ==
    [k \in {ChanKey(r.market_id, r.channel) : r \in rows} |->
        CHOOSE r \in rows : ChanKey(r.market_id, r.channel) = k]
CategoryMap(rows) ==
    [k \in {CatKey(r.market_id, r.channel, r.category) : r \in rows} |->
        CHOOSE r \in rows : CatKey(r.market_id, r.channel, r.category) = k]

\* stored market rows: the seeded row (column defaults); a configured row;
\* a zero multiplier; a multiplier stored as NULL
MSeeded == MarketMap({MarketRow("NP", One, Zero, Zero)})
MConf == MarketMap({MarketRow("NP", R(11, 10), R(1, 10), R(15, 100))})
MZero == MarketMap({MarketRow("NP", Zero, Zero, Zero)})
MNull == MarketMap({MarketRow("NP", None, Zero, Zero)})

\* the E-Com row _seed_default_configs stores
SeededECom(m) ==
    ChannelRow(m, "EC",
               <<R(12, 100), R(3, 100), R(2, 100), R(2, 100),
                 Zero, Zero, Zero, R(2, 100)>>,
               R(85, 100), R(11, 10), Int2R(500), R(35, 100), Zero)

\* stored channel rows: the seeded row; a row with CTS total 0.20 whose
\* three resolver attributes are NULL; a row whose commission is NULL
CSeeded == ChannelMap({SeededECom("NP")})
CPlain ==
    ChannelMap({ChannelRow("NP", "EC",
                           <<R(1, 10), R(5, 100), Zero, Zero, Zero, Zero, Zero,
                             R(5, 100)>>,
                           None, None, Int2R(100), One, None)})
CNull ==
    ChannelMap({ChannelRow("NP", "EC",
                           <<None, Zero, Zero, Zero, Zero, Zero, Zero, Zero>>,
                           One, One, Int2R(100), One, Zero)})

\* stored category overrides: a row of NULLs; a row overriding two fields
\* (one of them with 0); a row for the category of SKUs that name none
KNulls == CategoryMap({CategoryRow("NP", "EC", "Skin", None, None, None)})
KSkin == CategoryMap({CategoryRow("NP", "EC", "Skin", Zero, R(12, 10), None)})
KUnknown ==
    CategoryMap({CategoryRow("NP", "EC", "Unknown", R(1, 2), None, Int2R(2))})

\* the global settings _seed_default_configs stores
SSeeded ==
    [k \in {"consumer_trend_weight", "point_of_diff_weight",
            "channel_suitability_weight", "strategic_role_weight",
            "marketing_leverage_weight", "price_ladder_weight",
            "usage_occasion_weight", "channel_diff_weight",
            "story_cohesion_weight", "operational_synergy_weight",
            "regulatory_delay_weight", "retail_listing_weight",
            "competitive_weight", "supply_chain_weight", "price_war_weight",
            "launch_now_min_score", "launch_now_max_risk",
            "phase_later_min_score", "phase_later_max_risk",
            "price_multiplier", "import_freight_pct", "duties_taxes_pct",
            "listing_breadth_index", "gm_floor_pct"} |->
        CASE k = "launch_now_min_score" -> Int2R(4)
          [] k = "launch_now_max_risk" -> R(25, 10)
          [] k = "phase_later_min_score" -> Int2R(3)
          [] k = "phase_later_max_risk" -> R(35, 10)
          [] k = "price_multiplier" -> One
          [] k = "import_freight_pct" -> R(1, 10)
          [] k = "duties_taxes_pct" -> R(15, 100)
          [] k = "gm_floor_pct" -> R(35, 100)
          [] OTHER -> R(2, 10)]

\* settings an administrator has tuned; a price adjustment of -100%; a
\* scenario price delta below -100%
STuned ==
    [gm_floor_pct |-> R(34, 100), launch_now_min_score |-> Int2R(5),
     launch_now_max_risk |-> Int2R(2), adoption_rate |-> R(1, 2),
     marketing_lift |-> R(9, 10), competitor_idx |-> One,
     price_elasticity_abs |-> One, consumer_trend_weight |-> R(4, 10)]
SZeroPrice == [global_price_adjustment_pct |-> Int2R(-1)]
SNegPrice == [scenario_worst_price_delta |-> Int2R(-2)]

\* the fifteen weights set to values other than the default 0.2 (0, a
\* negative weight and weights above 1 among them), with elasticity 1
SWeights ==
    [consumer_trend_weight |-> One, point_of_diff_weight |-> R(1, 2),
     channel_suitability_weight |-> Zero, strategic_role_weight |-> One,
     marketing_leverage_weight |-> Int2R(2),
     price_ladder_weight |-> R(1, 2), usage_occasion_weight |-> One,
     channel_diff_weight |-> Int2R(-1), story_cohesion_weight |-> Int2R(3),
     operational_synergy_weight |-> Zero,
     regulatory_delay_weight |-> Zero, retail_listing_weight |-> R(1, 2),
     competitive_weight |-> One, supply_chain_weight |-> Zero,
     price_war_weight |-> R(1, 2), price_elasticity_abs |-> One]

\* settings of the demand model: elasticity 1/2 with a price adjustment of
\* +25%; elasticity 3; a price adjustment of -200% (a negative price
\* index) with elasticity 1 and with the default elasticity 1.5
SElastic == [price_elasticity_abs |-> R(1, 2),
             global_price_adjustment_pct |-> R(1, 4)]
SCubic == [price_elasticity_abs |-> Int2R(3)]
SNegIndex == [price_elasticity_abs |-> One,
              global_price_adjustment_pct |-> Int2R(-2)]
SNegIndexRoot == [global_price_adjustment_pct |-> Int2R(-2)]

\* scenario price deltas of -50% (best) and +100% (worst), elasticity 1
SScenario == [scenario_best_price_delta |-> R(-1, 2),
              scenario_worst_price_delta |-> One,
              price_elasticity_abs |-> One]

AllSettings == {EmptyMap, SSeeded, STuned, SZeroPrice, SNegPrice, SScenario}
AllMarkets == {EmptyMap, MSeeded, MConf, MZero, MNull}
AllChannels == {EmptyMap, CSeeded, CPlain, CNull}
AllCategories == {EmptyMap, KNulls, KSkin, KUnknown}

\* the engines built from every combination of the given maps
Engines(ss, ms, cs, ks) ==
    {CalculationEngine(gs, m, mc, cat) :
        gs \in ss, m \in ms, mc \in cs, cat \in ks}

\* five ratings of one layer
Ratings(a, b, c, d, e) == <<a, b, c, d, e>>
All(x) == Ratings(x, x, x, x, x)

\* a SkuRecord (the columns the engine reads)
SkuRecord(id, market, channel, category, price, cost, fit, syn, risk, gates) ==
    [sku_id |-> id, target_market |-> market, primary_channel |-> channel,
     category |-> category, local_list_price |-> price, landed_cost |-> cost,
     score_consumer_trend |-> fit[1], score_point_of_diff |-> fit[2],
     score_channel_suitability |-> fit[3], score_strategic_role |-> fit[4],
     score_marketing_leverage |-> fit[5],
     score_price_ladder |-> syn[1], score_usage_occasion |-> syn[2],
     score_channel_diff |-> syn[3], score_story_cohesion |-> syn[4],
     score_operational_synergy |-> syn[5],
     score_regulatory_delay |-> risk[1], score_retail_listing |-> risk[2],
     score_competitive |-> risk[3], score_supply_chain |-> risk[4],
     score_price_war |-> risk[5],
     regulatory_eligible |-> gates[1], regulatory_prohibition |-> gates[2],
     ip_risk_high |-> gates[3], supply_ready |-> gates[4]]

NoGates == <<"None", "None", "False", "None">>

\* SKUs that differ in market, price and cost
PricingSkus ==
    {SkuRecord("S1", m, "EC", "Skin", price, cost,
               All(Int2R(5)), All(Int2R(5)), All(Int2R(2)), NoGates) :
        m \in {"NP", "XX"},
        price \in {None, Zero, Int2R(100), Int2R(-100)},
        cost \in {None, Int2R(40)}}

\* SKUs that differ in their fifteen ratings
RatingSkus ==
    {SkuRecord("S2", "NP", "EC", "Skin", Int2R(100), Int2R(40), fit, syn, risk, NoGates) :
        fit \in {All(None), All(Int2R(5)), All(Int2R(4)),
                 Ratings(Int2R(5), Int2R(4), None, Int2R(3), Int2R(5))},
        syn \in {All(None), All(Int2R(5))},
        risk \in {All(None), All(Int2R(2)), All(Int2R(5)),
                  Ratings(Int2R(3), Int2R(3), Int2R(2), Int2R(2), None)}}

\* SKUs that differ in their four nullable gates
GateSkus ==
    {SkuRecord("S3", "NP", "EC", "Skin", Int2R(100), Int2R(40),
               All(Int2R(5)), All(Int2R(5)), All(Int2R(2)),
               <<elig, prohib, ip, supply>>) :
        elig \in Bool3, prohib \in Bool3, ip \in Bool3, supply \in Bool3}

\* SKUs without a target market or without a primary channel
IncompleteSkus ==
    {SkuRecord("S4", mc[1], mc[2], "Skin", price, Int2R(40),
               All(Int2R(5)), All(Int2R(5)), All(Int2R(2)),
               <<"None", "None", ip, "None">>) :
        mc \in {<<NoneStr, NoneStr>>, <<"", "">>, <<NoneStr, "EC">>,
                <<"NP", NoneStr>>, <<"NP", "">>},
        price \in {None, Int2R(100)}, ip \in {"True", "False"}}

\* SKUs that differ in their category
CategorySkus ==
    {SkuRecord("S5", "NP", "EC", cat, Int2R(100), Int2R(40),
               All(Int2R(5)), All(Int2R(5)), All(Int2R(2)), NoGates) :
        cat \in {NoneStr, "", "Skin", "Hair"}}

ResolverFields == {"adoption_rate", "marketing_lift", "competitor_idx"}

\* the arguments of a call of _get_override
CallInputs ==
    [market : {"NP", "XX"}, channel : {"EC"}, category : {"Skin", "Unknown"},
     field_name : ResolverFields, global_default : {One, Zero}]

\* no SKU and no resolver arguments (for the method that is not called)
NoSku == SkuRecord(NoneStr, NoneStr, NoneStr, NoneStr, None, None,
                   All(None), All(None), All(None), NoGates)
NoCall == [market |-> NoneStr, channel |-> NoneStr, category |-> NoneStr,
           field_name |-> NoneStr, global_default |-> None]
NoResult == Returned(SkuCalculationCache(NoneStr))

\* calls of calculate_sku, of the engines es for the SKUs ss
CalculateCases(es, ss) ==
    {[engine |-> e, method |-> "calculate_sku", sku |-> s, call |-> NoCall] :
        e \in es, s \in ss}
\* calls of _get_override, of the engines es with the arguments cs
ResolveCases(es, cs) ==
    {[engine |-> e, method |-> "_get_override", sku |-> NoSku, call |-> c] :
        e \in es, c \in cs}

\* the calls that are checked: each family of SKUs with the configurations
\* that bear on it
Cases ==
    CalculateCases(Engines(AllSettings, AllMarkets, AllChannels, {EmptyMap}),
                   PricingSkus)
    \cup CalculateCases(Engines({EmptyMap, STuned}, {EmptyMap, MConf},
                                {EmptyMap, CSeeded, CPlain}, {EmptyMap}),
                        RatingSkus)
    \cup CalculateCases(Engines({SWeights}, {EmptyMap, MSeeded},
                                {EmptyMap, CPlain}, {EmptyMap}),
                        RatingSkus)
    \cup CalculateCases(Engines({EmptyMap, SSeeded, STuned}, {MSeeded, MConf},
                                {EmptyMap, CSeeded, CPlain}, {EmptyMap}),
                        GateSkus)
    \cup CalculateCases(Engines({EmptyMap, STuned, SZeroPrice},
                                {EmptyMap, MConf, MNull},
                                {EmptyMap, CPlain, CNull}, {EmptyMap, KSkin}),
                        IncompleteSkus)
    \cup CalculateCases(Engines({EmptyMap, STuned}, {MSeeded},
                                {EmptyMap, CSeeded, CPlain}, AllCategories),
                        CategorySkus)
    \cup CalculateCases(Engines({SElastic, SCubic, SNegIndex, SNegIndexRoot},
                                {MSeeded}, {CSeeded, CPlain}, {EmptyMap, KSkin}),
                        CategorySkus)
    \cup ResolveCases(Engines({EmptyMap, STuned}, {EmptyMap},
                              AllChannels, AllCategories),
                      CallInputs)

\* a database with nothing stored, and no request in progress
EmptyDb ==
    [settings |-> EmptyMap, markets |-> {}, channels |-> {}, categories |-> {},
     skus |-> EmptyMap, caches |-> EmptyMap]
NoRequests == <<>>

------------------------------------------------------------------------
\* The engine as a state machine: an engine is built, and one of its
\* methods is called on it

Init ==
    \E c \in Cases :
        /\ engine = c.engine
        /\ method = c.method
        /\ sku = c.sku
        /\ call = c.call
        /\ pc = "start"
        /\ result = NoResult
        /\ resolved = None
        /\ records = EmptyMap
        /\ heap = <<>>
        /\ log = <<>>
        /\ db = EmptyDb
        /\ req = NoRequests

\* engine.calculate_sku(sku)
CalculateSku ==
    /\ pc = "start"
    /\ method = "calculate_sku"
    /\ result' = calculate_sku(engine, sku)
    /\ pc' = "done"
    /\ UNCHANGED <<engine, method, sku, call, resolved>>
    /\ UNCHANGED <<records, heap, log, db, req>>

\* engine._get_override(market, channel, category, field_name, global_default)
GetOverride ==
    /\ pc = "start"
    /\ method = "_get_override"
    /\ resolved' = _get_override(engine, call.market, call.channel,
                                  call.category, call.field_name,
                                  call.global_default)
    /\ pc' = "done"
    /\ UNCHANGED <<engine, method, sku, call, result>>
    /\ UNCHANGED <<records, heap, log, db, req>>

Next == CalculateSku \/ GetOverride

Spec == Init /\ [][Next]_vars

------------------------------------------------------------------------
\* A session of calls: one engine is called again and again, on the SKU
\* records of a pool, in any order

\* the number of calls made in a session
MaxCalls == 3

\* the engines and the SKU records of a session: two complete SKUs and one
\* without a primary channel
CallEngines == Engines({EmptyMap, STuned}, {MConf}, {CPlain, CNull}, {EmptyMap})
CallRecords ==
    [S1 |-> SkuRecord("S1", "NP", "EC", "Skin", Int2R(100), Int2R(40),
                      All(Int2R(5)), All(Int2R(5)), All(Int2R(2)), NoGates),
     S2 |-> SkuRecord("S2", "NP", "EC", "Skin", Int2R(100), Int2R(40),
                      All(Int2R(4)), All(None), All(Int2R(5)), NoGates),
     S4 |-> SkuRecord("S4", "NP", NoneStr, "Skin", Int2R(100), Int2R(40),
                      All(Int2R(5)), All(Int2R(5)), All(Int2R(2)), NoGates)]

\* the object of the last result is filled in again and handed back
AllocateReuse(h, obj) ==
    IF h = <<>> THEN <<obj>> ELSE [h EXCEPT ![Len(h)] = obj]

\* `cache = SkuCalculationCache(...)`: every call constructs a new object,
\* the one it fills in and returns
Allocate(h, obj) == Append(h, obj)

InitCalls ==
    \E e \in CallEngines :
        /\ engine = e
        /\ method = "calculate_sku"
        /\ sku = NoSku
        /\ call = NoCall
        /\ pc = "calls"
        /\ result = NoResult
        /\ resolved = None
        /\ records = CallRecords
        /\ heap = <<>>
        /\ log = <<>>
        /\ db = EmptyDb
        /\ req = NoRequests

\* engine.calculate_sku(records[id]): the engine and the record are read,
\* a result object is created and returned, or an exception is raised
Call ==
    /\ pc = "calls"
    /\ Len(log) < MaxCalls
    /\ \E id \in DOMAIN records :
          LET r == calculate_sku(engine, records[id])
              h == IF r.raised = "" THEN Allocate(heap, r.value) ELSE heap
          IN  /\ sku' = records[id]
              /\ result' = r
              /\ heap' = h
              /\ log' = Append(log, [sku |-> records[id], raised |-> r.raised,
                                     oid |-> IF r.raised = "" THEN Len(h) ELSE 0,
                                     value |-> r.value])
    /\ UNCHANGED <<engine, method, call, pc, resolved, records, db, req>>

NextCalls == Call

SpecCalls == InitCalls /\ [][NextCalls]_vars

------------------------------------------------------------------------
\* The database and the orchestration around the engine
\* (services/recalculator.py, services/excel_parser.py,
\* api/endpoints/markets.py).  db holds the committed rows: settings maps a
\* setting key to its value, markets, channels and categories are the sets
\* of stored rows (each with its primary-key columns), skus maps a SKU id
\* to its record and caches maps a SKU id to its stored cache row.

\* the rows filter_by(...) selects
MarketsNamed(d, name) == {r \in d.markets : r.market_name = name}
ChannelsOf(d, m, ch) ==
    {r \in d.channels : r.market_id = m /\ r.channel = ch}
CategoriesOf(d, m, ch, cat) ==
    {r \in d.categories : r.market_id = m /\ r.channel = ch /\ r.category = cat}

\* a row as INSERT stores it when only its key is given: the column
\* defaults of MarketConfig and MarketChannelConfig, NULLs for
\* MarketCategoryConfig
NewMarketRow(name) == MarketRow(name, One, Zero, Zero)
NewChannelRow(m, ch) ==
    ChannelRow(m, ch, <<Zero, Zero, Zero, Zero, Zero, Zero, Zero, Zero>>,
               One, One, Zero, One, Zero)
NewCategoryRow(m, ch, cat) == CategoryRow(m, ch, cat, None, None, None)

\* `for var, value in payload.dict(exclude_unset=True).items():
\*      setattr(db_obj, var, value)`
SetAttrs(row, payload) ==
    [f \in DOMAIN row |-> IF f \in DOMAIN payload THEN payload[f] ELSE row[f]]

\* the dicts the comprehensions `{f"{c.market_id}_{c.channel}": c for c in
\* rows}` and `{f"{c.market_id}_{c.channel}_{c.category}": c ...}` can give:
\* where two rows have the same key, the row that the unordered SELECT
\* happens to return last is kept
ChannelKeyOf(r) == ChanKey(r.market_id, r.channel)
CategoryKeyOf(r) == CatKey(r.market_id, r.channel, r.category)
ChannelMaps(rows) ==
    LET shared == {r \in rows : \E q \in rows :
                      q # r /\ ChannelKeyOf(q) = ChannelKeyOf(r)}
        kept == {w \in SUBSET shared : \A r \in shared :
                    Cardinality({q \in w : ChannelKeyOf(q) = ChannelKeyOf(r)}) = 1}
    IN  {ChannelMap((rows \ shared) \cup w) : w \in kept}
CategoryMaps(rows) ==
    LET shared == {r \in rows : \E q \in rows :
                      q # r /\ CategoryKeyOf(q) = CategoryKeyOf(r)}
        kept == {w \in SUBSET shared : \A r \in shared :
                    Cardinality({q \in w : CategoryKeyOf(q) = CategoryKeyOf(r)}) = 1}
    IN  {CategoryMap((rows \ shared) \cup w) : w \in kept}

\* the engines build_calc_engine (and the same lines of _parse_skus) can
\* build from the stored configuration
BuiltEngines(d) ==
    {CalculationEngine(d.settings, MarketMap(d.markets), mc, cat) :
        mc \in ChannelMaps(d.channels), cat \in CategoryMaps(d.categories)}

\* the attributes in new_cache.__dict__ whose name has no leading
\* underscore: sku_id, which the constructor was given, and the attributes
\* calculate_sku assigned, which are all of them once the SKU passed the
\* completeness check (gm_dollar_per_unit is then a number) and none before
DictKeys(new_cache) ==
    IF IsNone(new_cache.gm_dollar_per_unit) THEN {"sku_id"}
    ELSE DOMAIN new_cache

\* `for k, v in new_cache.__dict__.items():
\*      if not k.startswith('_'): setattr(existing, k, v)`
\* (skip = {"sku_id"} in _parse_skus, {} in recalculate_all_skus)
CopyAttrs(existing, new_cache, skip) ==
    [f \in DOMAIN existing |->
        IF f \in DictKeys(new_cache) \ skip THEN new_cache[f] ELSE existing[f]]

\* the cache a SKU has in the session after its result is computed: the
\* existing row with the result's attributes copied over it, or the new
\* object when the SKU has none
Upserted(caches, id, new_cache, skip) ==
    IF id \in DOMAIN caches THEN CopyAttrs(caches[id], new_cache, skip)
    ELSE new_cache

\* a map with one more entry
Put(f, k, v) == [x \in DOMAIN f \cup {k} |-> IF x = k THEN v ELSE f[x]]

\* _seed_default_configs: the defaults it inserts where they are missing
DefaultMarkets == {"Nepal", "India", "UAE"}
DefaultChannels == {"E-Com", "MT", "GT", "Rx/Clinic"}
SeededChannel(m, ch) ==
    LET ecom == ch = "E-Com"
        mt == ch = "MT"
    IN  ChannelRow(m, ch,
          <<IF ecom THEN R(12, 100) ELSE Zero,
            IF ecom THEN R(3, 100) ELSE R(2, 100),
            IF ecom THEN R(2, 100) ELSE Zero,
            IF ecom THEN R(2, 100) ELSE R(1, 100),
            IF mt THEN R(2, 100) ELSE Zero,
            IF mt THEN R(1, 10) ELSE IF ~ecom THEN R(8, 100) ELSE Zero,
            IF ch # "Rx/Clinic" /\ ~ecom THEN R(2, 100) ELSE Zero,
            IF mt THEN R(3, 100) ELSE R(2, 100)>>,
          CASE ecom -> R(85, 100) [] mt -> R(7, 10)
            [] ch = "GT" -> R(55, 100) [] OTHER -> R(6, 10),
          CASE ecom -> R(11, 10) [] mt -> One
            [] ch = "GT" -> R(95, 100) [] OTHER -> R(105, 100),
          CASE ecom -> Int2R(500) [] mt -> Int2R(350)
            [] ch = "GT" -> Int2R(250) [] OTHER -> Int2R(500),
          CASE ecom -> R(35, 100) [] mt -> R(3, 10)
            [] ch = "GT" -> R(2, 10) [] OTHER -> R(15, 100),
          Zero)

\* every default is written again, over what is stored
SeedOverwriting(d) ==
    [d EXCEPT
       !.settings = [k \in DOMAIN d.settings \cup DOMAIN SSeeded |->
                        IF k \in DOMAIN SSeeded THEN SSeeded[k]
                        ELSE d.settings[k]],
       !.markets = {r \in d.markets : r.market_name \notin DefaultMarkets}
                   \cup {NewMarketRow(m) : m \in DefaultMarkets},
       !.channels = {r \in d.channels :
                        r.market_id \notin DefaultMarkets
                        \/ r.channel \notin DefaultChannels}
                    \cup {SeededChannel(m, ch) :
                             m \in DefaultMarkets, ch \in DefaultChannels}]

\* _seed_default_configs(db): each default setting, market and
\* market-channel row is inserted if no row with its key is stored
_seed_default_configs(d) ==
    [d EXCEPT
       !.settings = [k \in DOMAIN d.settings \cup DOMAIN SSeeded |->
                        IF k \in DOMAIN d.settings THEN d.settings[k]
                        ELSE SSeeded[k]],
       !.markets = d.markets
                   \cup {NewMarketRow(m) :
                            m \in {n \in DefaultMarkets : MarketsNamed(d, n) = {}}},
       !.channels = d.channels
                    \cup {SeededChannel(k[1], k[2]) :
                             k \in {x \in DefaultMarkets \X DefaultChannels :
                                       ChannelsOf(d, x[1], x[2]) = {}}}]

\* _parse_skus(df, db, mapping, default_market) with the engine it builds:
\* the named rows of the sheet are upserted, every stored SKU is
\* calculated and its cache upserted; an exception rolls all of it back
_parse_skus(d, file, default_market, eng) ==
    LET rows == {r \in file : r.named}
        ids == {r.rec.sku_id : r \in rows}
        parsed(id) ==
            LET rec == (CHOOSE r \in rows : r.rec.sku_id = id).rec
            IN  IF Truthy(default_market)
                THEN [rec EXCEPT !.target_market = default_market]
                ELSE rec
        skus == [id \in DOMAIN d.skus \cup ids |->
                    IF id \in ids THEN parsed(id) ELSE d.skus[id]]
        upserted(results) ==
            IF \E id \in DOMAIN skus : results[id].raised # ""
            THEN [raised |-> "Exception", db |-> d]
            ELSE [raised |-> "",
                  db |-> [d EXCEPT
                            !.skus = skus,
                            !.caches = [id \in DOMAIN skus |->
                                           Upserted(d.caches, id, results[id].value,
                                                    {"sku_id"})]]]
    IN  upserted([id \in DOMAIN skus |-> calculate_sku(eng, skus[id])])

\* A request in progress: op names the handler, pc its position, left
\* the number of requests the client still makes, failed whether one of its
\* requests ended with an error; settings, markets, market_channels and
\* market_categories are the dicts build_calc_engine has read, skus the
\* SkuRecords selected, loaded their caches as selected, work the caches as
\* the session holds them, todo the SKUs the loop has not reached
Session(p_left, p_failed) ==
    [pc |-> "idle", op |-> "", left |-> p_left, failed |-> p_failed,
     file |-> {}, default_market |-> NoneStr,
     settings |-> EmptyMap, markets |-> EmptyMap,
     market_channels |-> EmptyMap, market_categories |-> EmptyMap,
     skus |-> EmptyMap, loaded |-> EmptyMap, work |-> EmptyMap, todo |-> {}]

\* the request p starts: handler op, at position at
Started(p, op, at) ==
    [req EXCEPT ![p] = [@ EXCEPT !.op = op, !.pc = at, !.left = @ - 1]]
\* the request p moves to position at
At(p, at) == [req EXCEPT ![p].pc = at]
\* the client of p may make a request
CanStart(p) == req[p].pc = "idle" /\ req[p].left > 0

\* the requests that are made: names, payloads and uploaded sheets
UploadedSku(id, market, channel) ==
    SkuRecord(id, market, channel, "Skin", Int2R(100), Int2R(40),
              All(Int2R(5)), All(Int2R(5)), All(Int2R(2)),
              <<"None", "None", "True", "None">>)
\* a sheet with a SKU of a seeded market and channel and a SKU of a market
\* and channel that are not configured; the same sheet with the first
\* SKU's target market left blank and a row without a name
FirstSheet ==
    {[named |-> TRUE, rec |-> UploadedSku("S1", "Nepal", "E-Com")],
     [named |-> TRUE, rec |-> UploadedSku("S3", "SA_East", "EC")]}
SecondSheet ==
    {[named |-> TRUE, rec |-> UploadedSku("S1", NoneStr, "E-Com")],
     [named |-> FALSE, rec |-> UploadedSku("S9", "Nepal", "E-Com")]}
Sheets == {FirstSheet, SecondSheet}
MarketNames == {"Nepal", "SA", "SA_East"}
MarketPayloads == {[price_multiplier |-> Int2R(2)], [price_multiplier |-> None]}
ChannelNames == {<<"Nepal", "E-Com">>, <<"SA", "East_EC">>}
ChannelPayloads == {[commission_pct |-> R(1, 2)], [commission_pct |-> None]}
CategoryNames == {<<"Nepal", "E-Com", "Skin">>}
CategoryPayloads == {[adoption_rate_override |-> R(1, 2)]}

\* POST /{market_name}: 400 when the market exists, else the market is
\* stored; the caches are not recalculated
create_market(p) ==
    /\ CanStart(p)
    /\ \E name \in MarketNames, payload \in MarketPayloads :
          IF MarketsNamed(db, name) # {}
          THEN /\ req' = [Started(p, "create_market", "failed") EXCEPT ![p].failed = TRUE]
               /\ db' = db
          ELSE /\ req' = Started(p, "create_market", "done")
               /\ db' = [db EXCEPT !.markets =
                            @ \cup {SetAttrs(NewMarketRow(name), payload)}]
    /\ UNCHANGED <<engine, method, sku, call, pc, result, resolved, records, heap, log>>

\* PUT /{market_name}: 404 when the market is missing, else the payload is
\* set and committed, and recalculate_all_skus begins
update_market(p) ==
    /\ CanStart(p)
    /\ \E name \in MarketNames, payload \in MarketPayloads :
          IF MarketsNamed(db, name) = {}
          THEN /\ req' = [Started(p, "update_market", "failed") EXCEPT ![p].failed = TRUE]
               /\ db' = db
          ELSE /\ req' = Started(p, "update_market", "settings")
               /\ db' = [db EXCEPT !.markets =
                            {IF r.market_name = name THEN SetAttrs(r, payload)
                             ELSE r : r \in @}]
    /\ UNCHANGED <<engine, method, sku, call, pc, result, resolved, records, heap, log>>

\* DELETE /{market_name}: 404 when the market is missing, else the market
\* is deleted with its channel and category rows (cascade), and
\* recalculate_all_skus begins
delete_market(p) ==
    /\ CanStart(p)
    /\ \E name \in MarketNames :
          IF MarketsNamed(db, name) = {}
          THEN /\ req' = [Started(p, "delete_market", "failed") EXCEPT ![p].failed = TRUE]
               /\ db' = db
          ELSE /\ req' = Started(p, "delete_market", "settings")
               /\ db' = [db EXCEPT
                           !.markets = {r \in @ : r.market_name # name},
                           !.channels = {r \in @ : r.market_id # name},
                           !.categories = {r \in @ : r.market_id # name}]
    /\ UNCHANGED <<engine, method, sku, call, pc, result, resolved, records, heap, log>>

\* a row that refers to a market that is not stored: the INSERT fails where
\* the database enforces the foreign key and succeeds where it does not
InsertOutcomes(d, market) ==
    IF MarketsNamed(d, market) # {} THEN {"stored"}
    ELSE {"stored", "IntegrityError"}

\* PUT /{market_name}/channels/{channel_name}: the row is created if it is
\* missing, the payload is set and committed, recalculate_all_skus begins
update_market_channel(p) ==
    /\ CanStart(p)
    /\ \E key \in ChannelNames, payload \in ChannelPayloads :
          LET found == ChannelsOf(db, key[1], key[2])
              db_obj == IF found # {} THEN CHOOSE r \in found : TRUE
                        ELSE NewChannelRow(key[1], key[2])
          IN  \E outcome \in IF found # {} THEN {"stored"}
                             ELSE InsertOutcomes(db, key[1]) :
                 IF outcome = "stored"
                 THEN /\ req' = Started(p, "update_market_channel", "settings")
                      /\ db' = [db EXCEPT !.channels =
                                   (@ \ found) \cup {SetAttrs(db_obj, payload)}]
                 ELSE /\ req' = [Started(p, "update_market_channel", "failed")
                                    EXCEPT ![p].failed = TRUE]
                      /\ db' = db
    /\ UNCHANGED <<engine, method, sku, call, pc, result, resolved, records, heap, log>>

\* PUT /{market_name}/channels/{channel_name}/categories/{category_name}
upsert_market_category_override(p) ==
    /\ CanStart(p)
    /\ \E key \in CategoryNames, payload \in CategoryPayloads :
          LET found == CategoriesOf(db, key[1], key[2], key[3])
              db_obj == IF found # {} THEN CHOOSE r \in found : TRUE
                        ELSE NewCategoryRow(key[1], key[2], key[3])
          IN  \E outcome \in IF found # {} THEN {"stored"}
                             ELSE InsertOutcomes(db, key[1]) :
                 IF outcome = "stored"
                 THEN /\ req' = Started(p, "upsert_market_category_override", "settings")
                      /\ db' = [db EXCEPT !.categories =
                                   (@ \ found) \cup {SetAttrs(db_obj, payload)}]
                 ELSE /\ req' = [Started(p, "upsert_market_category_override", "failed")
                                    EXCEPT ![p].failed = TRUE]
                      /\ db' = db
    /\ UNCHANGED <<engine, method, sku, call, pc, result, resolved, records, heap, log>>

\* DELETE /{market_name}/channels/{channel_name}/categories/{category_name}
delete_market_category_override(p) ==
    /\ CanStart(p)
    /\ \E key \in CategoryNames :
          LET found == CategoriesOf(db, key[1], key[2], key[3])
          IN  IF found = {}
              THEN /\ req' = [Started(p, "delete_market_category_override", "failed")
                                 EXCEPT ![p].failed = TRUE]
                   /\ db' = db
              ELSE /\ req' = Started(p, "delete_market_category_override", "settings")
                   /\ db' = [db EXCEPT !.categories = @ \ found]
    /\ UNCHANGED <<engine, method, sku, call, pc, result, resolved, records, heap, log>>

\* build_calc_engine, one SELECT at a time
ReadSettings(p) ==
    /\ req[p].pc = "settings"
    /\ req' = [req EXCEPT ![p].pc = "markets", ![p].settings = db.settings]
    /\ UNCHANGED <<engine, method, sku, call, pc, result, resolved, records, heap, log, db>>

ReadMarkets(p) ==
    /\ req[p].pc = "markets"
    /\ req' = [req EXCEPT ![p].pc = "channels",
                          ![p].markets = MarketMap(db.markets)]
    /\ UNCHANGED <<engine, method, sku, call, pc, result, resolved, records, heap, log, db>>

ReadChannels(p) ==
    /\ req[p].pc = "channels"
    /\ \E mc \in ChannelMaps(db.channels) :
          req' = [req EXCEPT ![p].pc = "categories", ![p].market_channels = mc]
    /\ UNCHANGED <<engine, method, sku, call, pc, result, resolved, records, heap, log, db>>

ReadCategories(p) ==
    /\ req[p].pc = "categories"
    /\ \E cat \in CategoryMaps(db.categories) :
          req' = [req EXCEPT ![p].pc = "load", ![p].market_categories = cat]
    /\ UNCHANGED <<engine, method, sku, call, pc, result, resolved, records, heap, log, db>>

\* the engine the request p has built
EngineOf(p) ==
    CalculationEngine(req[p].settings, req[p].markets,
                      req[p].market_channels, req[p].market_categories)

\* delete-then-write: the stored caches are deleted before the loop
LoadSkusDeleting(p) ==
    /\ req[p].pc = "load"
    /\ req' = [req EXCEPT ![p].pc = "loop", ![p].skus = db.skus,
                          ![p].loaded = db.caches, ![p].work = db.caches,
                          ![p].todo = DOMAIN db.skus]
    /\ db' = [db EXCEPT !.caches = EmptyMap]
    /\ UNCHANGED <<engine, method, sku, call, pc, result, resolved, records, heap, log>>

\* recalculate_all_skus: the SkuRecords are selected with their caches
LoadSkus(p) ==
    /\ req[p].pc = "load"
    /\ req' = [req EXCEPT ![p].pc = "loop", ![p].skus = db.skus,
                          ![p].loaded = db.caches, ![p].work = db.caches,
                          ![p].todo = DOMAIN db.skus]
    /\ UNCHANGED <<engine, method, sku, call, pc, result, resolved, records, heap, log, db>>

\* one turn of `for db_sku in skus`: the SKU is calculated and its cache
\* upserted in the session; an exception ends the request, and nothing of
\* the session is committed
RecomputeSku(p) ==
    /\ req[p].pc = "loop"
    /\ \E id \in req[p].todo :
          \E new_cache \in {calculate_sku(EngineOf(p), req[p].skus[id])} :
              IF new_cache.raised # ""
              THEN req' = [req EXCEPT ![p].pc = "failed", ![p].failed = TRUE]
              ELSE req' = [req EXCEPT
                             ![p].todo = @ \ {id},
                             ![p].work = Put(@, id, Upserted(@, id, new_cache.value, {}))]
    /\ UNCHANGED <<engine, method, sku, call, pc, result, resolved, records, heap, log, db>>

\* the columns of the changed caches are written at the commit, every
\* column of a new cache
Flushed(stored, loaded, work) ==
    [id \in DOMAIN stored \cup DOMAIN work |->
        IF id \notin DOMAIN work THEN stored[id]
        ELSE IF id \notin DOMAIN stored \/ id \notin DOMAIN loaded THEN work[id]
        ELSE [f \in DOMAIN work[id] |->
                 IF work[id][f] # loaded[id][f] THEN work[id][f]
                 ELSE stored[id][f]]]

\* `await db.commit()` at the end of recalculate_all_skus; the INSERT of a
\* cache fails when another request has stored that SKU's cache meanwhile
Commit(p) ==
    /\ req[p].pc = "loop"
    /\ req[p].todo = {}
    /\ IF \E id \in DOMAIN req[p].work : id \notin DOMAIN req[p].loaded /\ id \in DOMAIN db.caches
       THEN /\ req' = [req EXCEPT ![p].pc = "failed", ![p].failed = TRUE]
            /\ db' = db
       ELSE /\ req' = At(p, "done")
            /\ db' = [db EXCEPT !.caches = Flushed(@, req[p].loaded, req[p].work)]
    /\ UNCHANGED <<engine, method, sku, call, pc, result, resolved, records, heap, log>>

\* parse_and_seed_excel: the defaults are seeded and committed
Upload(p) ==
    /\ CanStart(p)
    /\ \E file \in Sheets :
          req' = [Started(p, "parse_and_seed_excel", "parse") EXCEPT ![p].file = file]
    /\ db' = _seed_default_configs(db)
    /\ UNCHANGED <<engine, method, sku, call, pc, result, resolved, records, heap, log>>

\* parse_and_seed_excel: the SKU sheet is parsed and the caches upserted
\* (the session keeps the dicts _parse_skus read and the caches it found)
ParseSkus(p) ==
    /\ req[p].pc = "parse"
    /\ \E eng \in BuiltEngines(db) :
          \E out \in {_parse_skus(db, req[p].file, req[p].default_market, eng)} :
              /\ db' = out.db
              /\ req' = IF out.raised = ""
                        THEN [req EXCEPT ![p].pc = "done",
                                         ![p].settings = eng.settings,
                                         ![p].markets = eng.markets,
                                         ![p].market_channels = eng.market_channels,
                                         ![p].market_categories = eng.market_categories,
                                         ![p].skus = out.db.skus,
                                         ![p].loaded = db.caches]
                        ELSE [req EXCEPT ![p].pc = "failed", ![p].failed = TRUE]
    /\ UNCHANGED <<engine, method, sku, call, pc, result, resolved, records, heap, log>>

\* the response is sent and the session closed
Close(p) ==
    /\ req[p].pc \in {"done", "failed"}
    /\ req' = [req EXCEPT ![p] = Session(@.left, @.failed)]
    /\ UNCHANGED <<engine, method, sku, call, pc, result, resolved, records, heap, log, db>>

\* the database after the first upload into an empty one
FirstUpload ==
    LET seeded == _seed_default_configs(EmptyDb)
    IN  _parse_skus(seeded, FirstSheet, NoneStr,
                    CHOOSE e \in BuiltEngines(seeded) : TRUE).db

\* the number of requests a client makes, one after the other
MaxRequests == 2

\* one client, its requests made one at a time
InitStore ==
    /\ engine = CalculationEngine(EmptyMap, EmptyMap, EmptyMap, EmptyMap)
    /\ method = "" /\ sku = NoSku /\ call = NoCall /\ pc = "store"
    /\ result = NoResult /\ resolved = None
    /\ records = EmptyMap /\ heap = <<>> /\ log = <<>>
    /\ db = FirstUpload
    /\ req = [p \in {1} |-> Session(MaxRequests, FALSE)]

NextStore ==
    \E p \in DOMAIN req :
        \/ create_market(p) \/ update_market(p) \/ delete_market(p)
        \/ update_market_channel(p)
        \/ upsert_market_category_override(p)
        \/ delete_market_category_override(p)
        \/ ReadSettings(p) \/ ReadMarkets(p) \/ ReadChannels(p)
        \/ ReadCategories(p) \/ LoadSkus(p) \/ RecomputeSku(p) \/ Commit(p)
        \/ Upload(p) \/ ParseSkus(p) \/ Close(p)

SpecStore == InitStore /\ [][NextStore]_vars

\* Two clients, each making one configuration update; their requests
\* overlap, every await being a point where the other request may run
InitOverlap ==
    /\ engine = CalculationEngine(EmptyMap, EmptyMap, EmptyMap, EmptyMap)
    /\ method = "" /\ sku = NoSku /\ call = NoCall /\ pc = "store"
    /\ result = NoResult /\ resolved = None
    /\ records = EmptyMap /\ heap = <<>> /\ log = <<>>
    /\ db = FirstUpload
    /\ req = [p \in {1, 2} |-> Session(1, FALSE)]

NextOverlap ==
    \E p \in DOMAIN req :
        \/ update_market(p) \/ update_market_channel(p)
        \/ ReadSettings(p) \/ ReadMarkets(p) \/ ReadChannels(p)
        \/ ReadCategories(p) \/ LoadSkus(p) \/ RecomputeSku(p) \/ Commit(p)
        \/ Close(p)

SpecOverlap == InitOverlap /\ [][NextOverlap]_vars

\* _seed_default_configs on its own, from stored states of every kind: no
\* row at all, the defaults as seeded, values a user has edited, rows that
\* are missing (never seeded, or deleted with their market) and rows the
\* defaults do not name.  log keeps the states it was applied to.
SeededDb == _seed_default_configs(EmptyDb)
StoredSettings ==
    {EmptyMap, SSeeded, STuned,
     [SSeeded EXCEPT !["gm_floor_pct"] = R(1, 2)],
     [k \in {"gm_floor_pct", "price_multiplier"} |-> Int2R(2)]}
StoredMarkets ==
    {{}, SeededDb.markets,
     {SetAttrs(r, IF r.market_name = "Nepal" THEN [price_multiplier |-> Int2R(2)]
                  ELSE << >>) : r \in SeededDb.markets},
     {r \in SeededDb.markets : r.market_name # "India"}
        \cup {NewMarketRow("SA")},
     {MarketRow("UAE", None, R(1, 10), Zero)}}
StoredChannels ==
    {{}, SeededDb.channels,
     {SetAttrs(r, IF r.market_id = "Nepal" /\ r.channel = "E-Com"
                  THEN [commission_pct |-> R(1, 2), base_units_month |-> Int2R(10)]
                  ELSE << >>) : r \in SeededDb.channels},
     {r \in SeededDb.channels : r.market_id # "India"}
        \cup {NewChannelRow("SA", "East_EC")},
     {NewChannelRow("UAE", "MT")}}
StoredStates ==
    {[EmptyDb EXCEPT !.settings = s, !.markets = m, !.channels = c] :
        s \in StoredSettings, m \in StoredMarkets, c \in StoredChannels}

\* the largest number of times it is run in a row
MaxSeeds == 2

InitSeed ==
    /\ engine = CalculationEngine(EmptyMap, EmptyMap, EmptyMap, EmptyMap)
    /\ method = "" /\ sku = NoSku /\ call = NoCall /\ pc = "seed"
    /\ result = NoResult /\ resolved = None
    /\ records = EmptyMap /\ heap = <<>> /\ log = <<>>
    /\ db \in StoredStates
    /\ req = NoRequests

\* `await _seed_default_configs(db)`, committed
Seed ==
    /\ pc = "seed"
    /\ Len(log) < MaxSeeds
    /\ db' = _seed_default_configs(db)
    /\ log' = Append(log, db)
    /\ UNCHANGED <<engine, method, sku, call, pc, result, resolved, records, heap, req>>

NextSeed == Seed

SpecSeed == InitSeed /\ [][NextSeed]_vars

------------------------------------------------------------------------
\* Properties

Range(f) == {f[k] : k \in DOMAIN f}

Resolved == pc = "done" /\ method = "_get_override"
Calculated == pc = "done" /\ method = "calculate_sku"
\* calculate_sku returned a cache object
ReturnedCache == Calculated /\ result.raised = ""
cache == result.value

\* the stored rows for a market, a (market, channel) pair and a
\* (market, channel, category) triple, found by their own columns
MarketRowsOf(m) ==
    {r \in Range(engine.markets) : r.market_name = m}
ChannelRowsOf(m, ch) ==
    {r \in Range(engine.market_channels) : r.market_id = m /\ r.channel = ch}
CategoryRowsOf(m, ch, cat) ==
    {r \in Range(engine.market_categories) :
        r.market_id = m /\ r.channel = ch /\ r.category = cat}

\* the value the three-tier cascade names for the call in `call`
C1_CategoryValues ==
    {CASE call.field_name = "adoption_rate" -> r.adoption_rate_override
       [] call.field_name = "marketing_lift" -> r.marketing_lift_override
       [] call.field_name = "competitor_idx" -> r.competitor_idx_override :
        r \in CategoryRowsOf(call.market, call.channel, call.category)}
        \ {None}
C1_ChannelValues ==
    {CASE call.field_name = "adoption_rate" -> r.retail_adoption_rate
       [] call.field_name = "marketing_lift" -> r.marketing_lift
       [] call.field_name = "competitor_idx" -> r.competitor_activity_idx :
        r \in ChannelRowsOf(call.market, call.channel)}
        \ {None}
C1_Expected ==
    IF C1_CategoryValues # {} THEN CHOOSE v \in C1_CategoryValues : TRUE
    ELSE IF C1_ChannelValues # {} THEN CHOOSE v \in C1_ChannelValues : TRUE
    ELSE IF call.field_name \in DOMAIN engine.settings
         THEN engine.settings[call.field_name]
    ELSE call.global_default

\* C1: every call of _get_override returns the category override when an
\* entry for (market, channel, category) has it non-null (0 included), else
\* the channel attribute the field maps to when an entry for (market,
\* channel) has it non-null, else the global setting of the field's own
\* name, else the caller's default.
C1_OverrideCascade == Resolved => resolved = C1_Expected

\* a category override of 0 is returned although the channel and the
\* settings have other values
C1_Witness ==
    /\ Resolved
    /\ C1_CategoryValues = {Zero}
    /\ C1_ChannelValues # {} /\ C1_ChannelValues # {Zero}
    /\ call.field_name \in DOMAIN engine.settings
    /\ resolved = Zero

\* the SKU has a target market / a primary channel (neither None nor "")
HasMarket == sku.target_market \notin {NoneStr, ""}
HasChannel == sku.primary_channel \notin {NoneStr, ""}
Complete == HasMarket /\ HasChannel

\* the all-empty result of the early return: the SKU's id and nothing else
EmptyResult == ReturnedCache /\ cache = SkuCalculationCache(sku.sku_id)

\* C2: calculate_sku never raises, whatever configuration is present or
\* absent and whichever attributes of the entries are null.
C2_NeverRaises == Calculated => result.raised = ""

\* C3: a SKU with ip_risk_high = true always gets "Do Not Launch" and is
\* not selected for wave 1, a SKU without target market or primary channel
\* included.
C3_IpRiskDoNotLaunch ==
    ReturnedCache /\ sku.ip_risk_high = "True"
        => /\ cache.final_recommendation = "Do Not Launch"
           /\ cache.select_for_wave_1 = "False"

\* C4: every returned result, for a complete or an incomplete SKU, has one
\* of the three recommendations.
C4_RecommendationSet ==
    ReturnedCache
        => cache.final_recommendation
               \in {"Do Not Launch", "Launch Now", "Phase Later"}

\* C5 as stated: a SKU that has a target market or a primary channel does
\* not get the all-empty result of the early return.
C5_EmptyOnlyIfBothMissing == EmptyResult => ~HasMarket /\ ~HasChannel

\* C5, amended: calculate_sku returns the all-empty result exactly when
\* the SKU lacks a target market or lacks a primary channel; a SKU that has
\* both never gets it.
C5_EmptyIffEitherMissing ==
    Calculated => (EmptyResult <=> (~HasMarket \/ ~HasChannel))

\* a SKU with a target market and no primary channel got the empty result
C5_Witness == EmptyResult /\ HasMarket /\ ~HasChannel

\* the derived numeric fields of a result
NumericFields ==
    {"gm_dollar_per_unit", "gm_pct", "weighted_score_layer_b",
     "channel_weighted_score", "synergy_score_layer_c", "risk_score_layer_d",
     "risk_factor"}
UnitFields ==
    {"adj_units_base", "adj_units_best", "adj_units_worst", "monthly_revenue",
     "monthly_gm_dollar", "monthly_gm_base", "monthly_gm_best",
     "monthly_gm_worst"}

\* C6: for a SKU with neither target market nor primary channel
\* calculate_sku returns, without raising, a result with the SKU's id whose
\* derived numeric fields are all at their default (unset), whatever the
\* SKU's prices and ratings and whatever the configuration.
C6_IncompleteAllDefault ==
    Calculated /\ ~HasMarket /\ ~HasChannel
        => /\ result.raised = ""
           /\ cache.sku_id = sku.sku_id
           /\ \A f \in NumericFields : cache[f] = None
           /\ \A f \in UnitFields : cache[f] = NoneSurd

\* a priced and rated SKU with empty-string market and channel, under a
\* configuration that has settings, a market, a channel and an override
C6_Witness ==
    /\ Calculated
    /\ sku.target_market = "" /\ sku.primary_channel = ""
    /\ sku.local_list_price = Int2R(100)
    /\ sku.score_consumer_trend = Int2R(5)
    /\ engine.settings # EmptyMap /\ engine.markets # EmptyMap
    /\ engine.market_channels # EmptyMap /\ engine.market_categories # EmptyMap
    /\ cache = SkuCalculationCache("S4")

\* the global setting of a name, or the default the spec gives for it
Setting(key, default) ==
    IF key \in DOMAIN engine.settings THEN engine.settings[key] ELSE default

\* C7: for a complete SKU with neither ip_risk_high nor
\* regulatory_prohibition true, the result is ("Launch Now", selected)
\* exactly when the three gates pass and the fit score (layer B) is >=
\* launch_now_min_score (default 4.0) and the risk score (layer D) is <=
\* launch_now_max_risk (default 2.5), and ("Phase Later", not selected)
\* otherwise; in every result select_for_wave_1 is true exactly when the
\* recommendation is "Launch Now".
C7_LaunchNow ==
    /\ ReturnedCache /\ Complete
          /\ sku.ip_risk_high # "True" /\ sku.regulatory_prohibition # "True"
        => IF /\ cache.pass_regulatory = "True"
              /\ cache.pass_supply_ready = "True"
              /\ cache.pass_gm_floor = "True"
              /\ Geq(cache.weighted_score_layer_b,
                     Setting("launch_now_min_score", Int2R(4)))
              /\ Leq(cache.risk_score_layer_d,
                     Setting("launch_now_max_risk", R(5, 2)))
           THEN /\ cache.final_recommendation = "Launch Now"
                /\ cache.select_for_wave_1 = "True"
           ELSE /\ cache.final_recommendation = "Phase Later"
                /\ cache.select_for_wave_1 = "False"
    /\ ReturnedCache
        => (cache.select_for_wave_1 = "True"
               <=> cache.final_recommendation = "Launch Now")

\* "Launch Now" with the fit score exactly at the threshold, under a
\* channel weight that puts the channel-weighted score below it
C7_Witness ==
    /\ ReturnedCache
    /\ cache.final_recommendation = "Launch Now"
    /\ cache.weighted_score_layer_b = Setting("launch_now_min_score", Int2R(4))
    /\ Lt(cache.channel_weighted_score, cache.weighted_score_layer_b)

\* C8: in every computed result pass_regulatory is false exactly when
\* regulatory_eligible is explicitly false, pass_supply_ready is false
\* exactly when supply_ready is explicitly false (null and true pass), and
\* pass_gm_floor is true exactly when gm_pct >= gm_floor_pct (default 0.35).
C8_Gates ==
    ReturnedCache /\ Complete
        => /\ cache.pass_regulatory
                 = (IF sku.regulatory_eligible = "False" THEN "False" ELSE "True")
           /\ cache.pass_supply_ready
                 = (IF sku.supply_ready = "False" THEN "False" ELSE "True")
           /\ cache.pass_gm_floor
                 = (IF Geq(cache.gm_pct, Setting("gm_floor_pct", R(35, 100)))
                    THEN "True" ELSE "False")

\* an unset flag passes, an explicit false fails, and the margin gate
\* passes with the margin exactly at the floor
C8_Witness ==
    /\ ReturnedCache
    /\ sku.regulatory_eligible = "None" /\ cache.pass_regulatory = "True"
    /\ sku.supply_ready = "False" /\ cache.pass_supply_ready = "False"
    /\ cache.gm_pct = Setting("gm_floor_pct", R(35, 100))
    /\ cache.pass_gm_floor = "True"

\* the market's price multiplier, import-freight % and duties-taxes % for
\* the SKU: 1, 0 and 0 when the market is unconfigured
MarketTerms ==
    IF MarketRowsOf(sku.target_market) = {}
    THEN [mult |-> One, freight |-> Zero, duties |-> Zero]
    ELSE LET r == CHOOSE r \in MarketRowsOf(sku.target_market) : TRUE
         IN  [mult |-> r.price_multiplier, freight |-> r.import_freight_pct,
              duties |-> r.duties_taxes_pct]
\* the list price and landed cost of the SKU, 0 when missing
ListPrice == IF IsNone(sku.local_list_price) THEN Zero ELSE sku.local_list_price
LandedCost == IF IsNone(sku.landed_cost) THEN Zero ELSE sku.landed_cost
\* adjusted price = list price x multiplier (None when the multiplier is NULL)
AdjustedPrice == Mul(ListPrice, MarketTerms.mult)
\* imported cost = landed cost x (1 + freight) x (1 + duties)
ImportedCost ==
    Mul(LandedCost, Mul(Add(One, MarketTerms.freight), Add(One, MarketTerms.duties)))
\* CTS total = the sum of the channel's eight percentages, 0 when the
\* channel is unconfigured
CtsSum ==
    IF ChannelRowsOf(sku.target_market, sku.primary_channel) = {} THEN Zero
    ELSE LET r == CHOOSE r \in
                     ChannelRowsOf(sku.target_market, sku.primary_channel) : TRUE
         IN  Add(r.commission_pct,
             Add(r.fulfillment_pct,
             Add(r.cod_pct,
             Add(r.returns_allowance_pct,
             Add(r.listing_fees_pct,
             Add(r.trade_terms_pct,
             Add(r.rebates_pct, r.promo_accrual_pct)))))))

\* some scenario's price divisor, price index x (1 + price delta), is 0
DemandDivisorZero ==
    \/ Setting("global_price_adjustment_pct", Zero) = Int2R(-1)
    \/ Setting("scenario_base_price_delta", Zero) = Int2R(-1)
    \/ Setting("scenario_best_price_delta", R(-5, 100)) = Int2R(-1)
    \/ Setting("scenario_worst_price_delta", R(10, 100)) = Int2R(-1)

\* C9: for a complete SKU whose adjusted list price is 0 or negative,
\* gm_pct is exactly 0 for any landed cost and any CTS percentages, and the
\* margin computation divides by nothing: a ZeroDivisionError, if any, comes
\* from a demand scenario whose price divisor is 0.
C9_ZeroMarginPct ==
    Calculated /\ Complete /\ ~IsNone(AdjustedPrice) /\ Leq(AdjustedPrice, Zero)
        => /\ result.raised = "" => cache.gm_pct = Zero
           /\ result.raised = "ZeroDivisionError" => DemandDivisorZero

\* a negative adjusted price with a non-zero margin per unit
C9_Witness ==
    /\ ReturnedCache /\ Complete
    /\ Lt(AdjustedPrice, Zero)
    /\ LandedCost = Int2R(40) /\ CtsSum # Zero
    /\ cache.gm_dollar_per_unit # Zero
    /\ cache.gm_pct = Zero

\* C10: for every complete SKU gm_dollar_per_unit = adjusted price -
\* (imported cost + CTS total x adjusted price); list price 100, landed
\* cost 40, multiplier 1.1, freight 0.1, duties 0.15 and CTS total 0.20 give
\* margin per unit 37.4 and margin % 0.34.
C10_MarginPerUnit ==
    ReturnedCache /\ Complete
        => /\ cache.gm_dollar_per_unit
                 = Sub(AdjustedPrice, Add(ImportedCost, Mul(CtsSum, AdjustedPrice)))
           /\ ( /\ ListPrice = Int2R(100) /\ LandedCost = Int2R(40)
                /\ MarketTerms = [mult |-> R(11, 10), freight |-> R(1, 10),
                                  duties |-> R(15, 100)]
                /\ CtsSum = R(20, 100) )
              => /\ cache.gm_dollar_per_unit = R(374, 10)
                 /\ cache.gm_pct = R(34, 100)

\* the end-to-end example has been computed
C10_Witness ==
    /\ ReturnedCache
    /\ ListPrice = Int2R(100) /\ LandedCost = Int2R(40)
    /\ MarketTerms = [mult |-> R(11, 10), freight |-> R(1, 10),
                      duties |-> R(15, 100)]
    /\ CtsSum = R(20, 100)
    /\ cache.gm_dollar_per_unit = R(374, 10)

\* the fifteen ratings of the SKU are all unset
AllRatingsUnset ==
    \A i \in 1..5 :
        /\ IsNone(sku["score_" \o LayerB[i]])
        /\ IsNone(sku["score_" \o LayerC[i]])
        /\ IsNone(sku["score_" \o LayerD[i]])

\* the ratings of a layer that are set, each times its configured weight
\* (default 0.2), added up; an unset rating adds nothing
RatedSum(names) ==
    LET RECURSIVE sum(_)
        sum(i) ==
            IF i = 0 THEN Zero
            ELSE Add(sum(i - 1),
                     IF IsNone(sku["score_" \o names[i]]) THEN Zero
                     ELSE Mul(sku["score_" \o names[i]],
                              Setting(names[i] \o "_weight", R(1, 5))))
    IN  sum(5)

\* C11: for a complete SKU whose fifteen ratings are all unset the fit
\* score (layer B), the synergy score (layer C) and the risk score (layer D)
\* are exactly 0 whatever the fifteen weights are; in every computed result
\* a missing rating contributes 0 to its weighted sum (it is not replaced
\* by a neutral value).
C11_UnratedScoresZero ==
    ReturnedCache /\ Complete
        => /\ AllRatingsUnset
                => /\ cache.weighted_score_layer_b = Zero
                   /\ cache.synergy_score_layer_c = Zero
                   /\ cache.risk_score_layer_d = Zero
           /\ cache.weighted_score_layer_b = RatedSum(LayerB)
           /\ cache.synergy_score_layer_c = RatedSum(LayerC)
           /\ cache.risk_score_layer_d = RatedSum(LayerD)

\* an unrated SKU has been scored under fifteen weights that all differ
\* from the default and are not all zero
C11_Witness ==
    /\ ReturnedCache /\ Complete /\ AllRatingsUnset
    /\ \A i \in 1..5 :
           /\ Setting(LayerB[i] \o "_weight", R(1, 5)) # R(1, 5)
           /\ Setting(LayerC[i] \o "_weight", R(1, 5)) # R(1, 5)
           /\ Setting(LayerD[i] \o "_weight", R(1, 5)) # R(1, 5)
    /\ cache.weighted_score_layer_b = Zero
    /\ cache.synergy_score_layer_c = Zero
    /\ cache.risk_score_layer_d = Zero

\* a <= b for surds; a complex value (r < 0) is not ordered
SLeq(a, b) ==
    LET neg(s) == s.c.n < 0
        \* |x| <= |y| for y # 0:  (x.c / y.c)^2 * x.r <= y.r
        absLeq(x, y) ==
            LET q == Div(x.c, y.c)
            IN  Leq(Mul(Mul(q, q), Int2R(x.r)), Int2R(y.r))
    IN  /\ a.r > 0 /\ b.r > 0
        /\ IF a.c.n = 0 THEN b.c.n >= 0
           ELSE IF b.c.n = 0 THEN a.c.n < 0
           ELSE IF neg(a) # neg(b) THEN neg(a)
           ELSE IF neg(a) THEN absLeq(b, a)
           ELSE absLeq(a, b)

\* the settings give every scenario its default values: base {0, 1, 1, 1},
\* best {-0.05, 1.15, 1.2, 0.9}, worst {+0.10, 0.85, 0.8, 1.2}
DefaultScenarios ==
    LET is(name, d_price, d_mkt, d_adopt, d_comp) ==
            /\ Setting("scenario_" \o name \o "_price_delta", d_price) = d_price
            /\ Setting("scenario_" \o name \o "_marketing_mult", d_mkt) = d_mkt
            /\ Setting("scenario_" \o name \o "_adoption_mult", d_adopt) = d_adopt
            /\ Setting("scenario_" \o name \o "_competitor_mult", d_comp) = d_comp
    IN  /\ is("base", Zero, One, One, One)
        /\ is("best", R(-5, 100), R(115, 100), R(12, 10), R(9, 10))
        /\ is("worst", R(10, 100), R(85, 100), R(8, 10), R(12, 10))

\* the price elasticity and the price-effective index 1 + global price
\* adjustment of the configuration
Elasticity == Setting("price_elasticity_abs", R(3, 2))
PriceIndex == Add(One, Setting("global_price_adjustment_pct", Zero))

\* the common unit multiplier of a computed result: base units x score
\* multiplier x risk factor x marketing factor x adoption x competitor
\* factor, from the stored configuration and the result's scores
CommonUnits ==
    LET rows == ChannelRowsOf(sku.target_market, sku.primary_channel)
        base_units == IF rows = {} THEN Zero
                      ELSE (CHOOSE r \in rows : TRUE).base_units_month
        cat == IF sku.category \in {NoneStr, ""} THEN "Unknown" ELSE sku.category
        ov(f) == _get_override(engine, sku.target_market, sku.primary_channel,
                               cat, f, One)
        marketing == Max(R(85, 100), Min(R(115, 100), ov("marketing_lift")))
        penalty ==
            Mul(Mul(Add(Setting("competitive_weight", R(1, 5)),
                        Setting("price_war_weight", R(1, 5))),
                    ov("competitor_idx")),
                Div(cache.risk_score_layer_d, Int2R(5)))
        competitor ==
            Max(Sub(One, Min(Setting("risk_penalty_cap", R(2, 5)), penalty)),
                R(3, 5))
        score == Max(R(3, 5), Div(cache.channel_weighted_score, Int2R(5)))
    IN  Mul(base_units,
            Mul(score,
                Mul(cache.risk_factor,
                    Mul(marketing, Mul(ov("adoption_rate"), competitor)))))

\* C12 as stated: with the default scenario settings, a positive common
\* unit multiplier and a price elasticity > 0, every computed result has
\* adj_units_worst <= adj_units_base <= adj_units_best.
C12_ScenarioOrder ==
    /\ ReturnedCache /\ Complete /\ DefaultScenarios
          /\ Gt(CommonUnits, Zero) /\ Gt(Elasticity, Zero)
        => /\ SLeq(cache.adj_units_worst, cache.adj_units_base)
           /\ SLeq(cache.adj_units_base, cache.adj_units_best)

\* C12, amended: with the default scenario settings, a positive common
\* unit multiplier, a price elasticity > 0 and a positive price-effective
\* index (global price adjustment above -100%), every computed result has
\* adj_units_worst <= adj_units_base <= adj_units_best.
C12_ScenarioOrderPositiveIndex ==
    /\ ReturnedCache /\ Complete /\ DefaultScenarios
          /\ Gt(CommonUnits, Zero) /\ Gt(Elasticity, Zero)
          /\ Gt(PriceIndex, Zero)
        => /\ SLeq(cache.adj_units_worst, cache.adj_units_base)
           /\ SLeq(cache.adj_units_base, cache.adj_units_best)

\* the three scenarios strictly ordered, under elasticity 3 with a positive
\* common unit multiplier
C12_Witness ==
    /\ ReturnedCache /\ Complete /\ DefaultScenarios
    /\ Gt(CommonUnits, Zero) /\ Elasticity = Int2R(3)
    /\ Gt(PriceIndex, Zero)
    /\ cache.adj_units_worst # cache.adj_units_base
    /\ cache.adj_units_base # cache.adj_units_best
    /\ SLeq(cache.adj_units_worst, cache.adj_units_base)
    /\ SLeq(cache.adj_units_base, cache.adj_units_best)

\* C14: in every computed result monthly_revenue = adj_units_base x
\* adjusted price, monthly_gm_dollar = monthly_gm_base = adj_units_base x
\* gm_dollar_per_unit, monthly_gm_best = adj_units_best x gm_dollar_per_unit
\* and monthly_gm_worst = adj_units_worst x gm_dollar_per_unit, with the one
\* margin per unit of the result, which is adjusted price - (imported cost
\* + CTS total x adjusted price) whatever the scenarios' price deltas.
C14_Rollups ==
    ReturnedCache /\ Complete
        => /\ cache.monthly_revenue = SMul(cache.adj_units_base, AdjustedPrice)
           /\ cache.monthly_gm_dollar = cache.monthly_gm_base
           /\ cache.monthly_gm_base
                 = SMul(cache.adj_units_base, cache.gm_dollar_per_unit)
           /\ cache.monthly_gm_best
                 = SMul(cache.adj_units_best, cache.gm_dollar_per_unit)
           /\ cache.monthly_gm_worst
                 = SMul(cache.adj_units_worst, cache.gm_dollar_per_unit)
           /\ cache.gm_dollar_per_unit
                 = Sub(AdjustedPrice, Add(ImportedCost, Mul(CtsSum, AdjustedPrice)))

\* a loss per unit rolled up over three different scenario volumes, under
\* scenario price deltas other than the defaults
C14_Witness ==
    /\ ReturnedCache /\ Complete
    /\ Setting("scenario_best_price_delta", R(-5, 100)) = R(-1, 2)
    /\ Lt(cache.gm_dollar_per_unit, Zero)
    /\ cache.adj_units_base.c.n # 0
    /\ cache.adj_units_best # cache.adj_units_base
    /\ cache.adj_units_worst # cache.adj_units_base
    /\ cache.monthly_gm_best
          = SMul(cache.adj_units_best, cache.gm_dollar_per_unit)
    /\ cache.monthly_gm_best # cache.monthly_gm_base

\* the calls made so far that returned a result
ReturnedCalls == {i \in 1..Len(log) : log[i].raised = ""}

\* every returned object is one no earlier call returned, it still holds
\* what it held when it was returned, and calls on equal SKU records ended
\* alike, with equal results
C13_FreshEqualResults ==
    /\ \A i \in ReturnedCalls :
          /\ log[i].oid \in 1..Len(heap)
          /\ heap[log[i].oid] = log[i].value
    /\ \A i, j \in ReturnedCalls : i # j => log[i].oid # log[j].oid
    /\ \A i, j \in 1..Len(log) :
          log[i].sku = log[j].sku
              => /\ log[i].raised = log[j].raised
                 /\ log[i].raised = "" => heap[log[i].oid] = heap[log[j].oid]

------------------------------------------------------------------------
\* The cache store

\* the request p has written its results: recalculate_all_skus or
\* _parse_skus has committed
Written(p) == req[p].pc = "done" /\ req[p].op # "create_market"

\* the SKUs whose existing cache the request p wrote a result over
Overwritten(p) == DOMAIN req[p].loaded \cap DOMAIN req[p].skus

\* the result the engine of p computes for a SKU equals the stored cache
FreshFor(p, id) ==
    calculate_sku(EngineOf(p), req[p].skus[id]) = Returned(db.caches[id])

\* C15: when recalculate_all_skus or _parse_skus has written a recomputed
\* result over a SKU's existing cache, the stored cache equals that result
\* in every field, also for a SKU that has become incomplete since
C15_FullReplacement ==
    \A p \in DOMAIN req :
        Written(p) => \A id \in Overwritten(p) : FreshFor(p, id)

\* the handlers that end with recalculate_all_skus
RecalculatingOps ==
    {"update_market", "delete_market", "update_market_channel",
     "upsert_market_category_override", "delete_market_category_override"}

\* recalculate_all_skus of the request p has selected the SKUs
InBatch(p) ==
    req[p].op \in RecalculatingOps /\ req[p].pc \in {"loop", "done", "failed"}

\* every SKU that had a cache when the batch began has one stored
NoCacheLost ==
    \A p \in DOMAIN req : InBatch(p) => DOMAIN req[p].loaded \subseteq DOMAIN db.caches

\* C16: during recalculate_all_skus no cache record is deleted: in every
\* state, also after the calculation of a SKU failed in the middle of the
\* batch, every SKU that had a cache before the run has one, and no step
\* removes a stored cache
C16_NoCacheDeleted ==
    []NoCacheLost /\ [][DOMAIN db.caches \subseteq DOMAIN db'.caches]_vars

\* the calculation of a SKU failed after another SKU of the batch had been
\* calculated, and the SKUs had caches
C16_Witness ==
    \E p \in DOMAIN req :
        /\ InBatch(p) /\ req[p].pc = "failed"
        /\ req[p].todo # {} /\ req[p].todo # DOMAIN req[p].skus
        /\ DOMAIN req[p].loaded = DOMAIN req[p].skus

\* the channel row and the category row the engine of the request p
\* consults for a SKU are stored for the SKU's own names
OwnChannel(p, s) ==
    LET chan_key == ChanKey(s.target_market, s.primary_channel)
    IN  chan_key \in DOMAIN req[p].market_channels =>
            /\ req[p].market_channels[chan_key].market_id = s.target_market
            /\ req[p].market_channels[chan_key].channel = s.primary_channel
OwnCategory(p, s) ==
    LET cat_key == CatKey(s.target_market, s.primary_channel, s.category)
    IN  cat_key \in DOMAIN req[p].market_categories =>
            /\ req[p].market_categories[cat_key].market_id = s.target_market
            /\ req[p].market_categories[cat_key].channel = s.primary_channel
            /\ req[p].market_categories[cat_key].category = s.category

\* C17: for every SKU, whatever the names (an underscore in them included),
\* the channel configuration and the category override the engine consults
\* are those stored for exactly the SKU's (target market, primary channel)
\* and (target market, primary channel, category)
C17_ExactConfiguration ==
    \A p \in DOMAIN req : \A id \in DOMAIN db.skus :
        ~Incomplete(db.skus[id]) =>
            OwnChannel(p, db.skus[id]) /\ OwnCategory(p, db.skus[id])

\* every stored cache equals the result calculate_sku gives for its SKU
\* under an engine built from the configuration now stored
CachesFresh ==
    \E eng \in BuiltEngines(db) :
        \A id \in DOMAIN db.skus :
            /\ id \in DOMAIN db.caches
            /\ calculate_sku(eng, db.skus[id]) = Returned(db.caches[id])

\* every request made so far has completed, and none with an error
AllReturned ==
    \A p \in DOMAIN req : req[p].pc \in {"idle", "done"} /\ ~req[p].failed

\* C18: after configuration-mutating requests that were made one at a time
\* and completed successfully (the SKUs being those of the first upload),
\* every SKU's stored cache equals the result of calculate_sku under the
\* configuration now stored
C18_FreshAfterRequests ==
    AllReturned /\ db.skus = FirstUpload.skus => CachesFresh

\* both clients have made their request and both requests have completed
\* without an error
BothCompleted ==
    \A p \in DOMAIN req :
        req[p].left = 0 /\ req[p].pc \in {"idle", "done"} /\ ~req[p].failed

\* C19: when two configuration-update requests overlap, under every
\* interleaving of their steps, once both have completed every SKU's
\* stored cache equals the result of calculate_sku under the final stored
\* configuration
C19_FreshAfterOverlap == BothCompleted => CachesFresh

------------------------------------------------------------------------
\* Seeding

\* what is stored in d is stored in e with the same values, and e has
\* no second row for a key of d
KeepsStored(d, e) ==
    /\ \A k \in DOMAIN d.settings :
          k \in DOMAIN e.settings /\ e.settings[k] = d.settings[k]
    /\ \A r \in d.markets : MarketsNamed(e, r.market_name) = MarketsNamed(d, r.market_name)
    /\ \A r \in d.channels :
          ChannelsOf(e, r.market_id, r.channel) = ChannelsOf(d, r.market_id, r.channel)
    /\ e.categories = d.categories /\ e.skus = d.skus /\ e.caches = d.caches

\* every default setting, market and market-channel row is stored in e
DefaultsPresent(e) ==
    /\ DOMAIN SSeeded \subseteq DOMAIN e.settings
    /\ \A m \in DefaultMarkets : MarketsNamed(e, m) # {}
    /\ \A m \in DefaultMarkets, ch \in DefaultChannels : ChannelsOf(e, m, ch) # {}

\* C20: _seed_default_configs only inserts what is missing: from any
\* stored state, every setting, market and market-channel row that exists
\* keeps its stored values, every default that was absent is present
\* afterwards, and a second run in a row changes nothing
C20_SeedOnlyMissing ==
    [][/\ KeepsStored(db, db')
       /\ DefaultsPresent(db')
       /\ Len(log) > 0 => db' = db]_vars

\* it has run twice from a state with edited values, a missing default
\* market and its missing channels, and rows the defaults do not name
C20_Witness ==
    /\ pc = "seed" /\ Len(log) = 2
    /\ log[1].settings = STuned
    /\ MarketsNamed(log[1], "India") = {} /\ MarketsNamed(log[1], "SA") # {}
    /\ \E r \in log[1].channels : r.commission_pct = R(1, 2)
    /\ \E r \in db.channels : r.commission_pct = R(1, 2)
    /\ MarketsNamed(db, "India") # {}
    /\ db.settings["gm_floor_pct"] = R(34, 100)

====
